---- MODULE Spec2Model ----
(***************************************************************************)
(* Face verification and attendance recording of src/app.py:               *)
(* check_face_quality, compare_faces_deepface, compare_faces_simple,       *)
(* verify_face_attendance, save_attendance, save_attendance_with_          *)
(* verification.  Confidences and distances are percentages on a grid of   *)
(* 5 (0, 5, ..., 100, ...); every threshold of the code (40, 50, 60, 65,   *)
(* 70) lies on the grid and every open band between two of them holds a    *)
(* grid point.                                                             *)
(***************************************************************************)
EXTENDS Integers, Sequences, FiniteSets, TLC

\* ---------------------------------------------------------------- bounds
MaxRecords == 2
MaxConfUnits == 20
MaxDistUnits == 22
MaxFaces == 2
MaxStudents == 2
MaxNimLen == 2

Percents == {5 * k : k \in 0..MaxConfUnits}
\* cosine distances as DeepFace reports them: 1 - cos, which floating-point
\* rounding takes just below 0 for two equal embeddings
Distances == {5 * k : k \in -1..MaxDistUnits}
FaceAreas == {5, 10, 80, 85}

RefStates == {"none", "valid", "corrupt"}
PhotoStates == {"missing", "undecodable", "unencodable", "ok"}

VARIABLES DEEPFACE_AVAILABLE, OPENCV_AVAILABLE, attendance, attendance0,
          pc, entry, args, calls, gate, tierRun, verdict, ui, result, tmpfiles,
          page, students, sess, NIM_UNIQUE

vars == <<DEEPFACE_AVAILABLE, OPENCV_AVAILABLE, attendance, attendance0,
          pc, entry, args, calls, gate, tierRun, verdict, ui, result, tmpfiles,
          page, students, sess, NIM_UNIQUE>>

Max(a, b) == IF a >= b THEN a ELSE b

\* ------------------------------------------------------- message values
Msg(kind, method, reason, conf) ==
    [kind |-> kind, method |-> method, reason |-> reason, conf |-> conf]

Verdict(matched, confidence, message) ==
    [matched |-> matched, confidence |-> confidence, message |-> message]

NoVerdict == Verdict(FALSE, 0, Msg("-", "-", "-", 0))
NoArgs == [ref |-> "none", photo |-> "missing", supabase |-> FALSE]
NoTier == [tier |-> "-", failed |-> FALSE, match |-> FALSE, confidence |-> 0]
NoUi == [offered |-> FALSE, override |-> FALSE, cancel |-> FALSE]
NoResult == [success |-> FALSE, message |-> "-"]

\* The attendance page of main() as the browser shows it between two script
\* runs: the override checkbox and the cancel button when the last run
\* rendered them, the confidence of the low-similarity verdict they belong
\* to, and the last such verdict the operator confirmed with the checkbox.
\* phase "off": the functions are called directly, without the page.
Page(phase, checkbox, cancelShown, cancelClicked, ticked) ==
    [phase |-> phase, checkbox |-> checkbox, cancelShown |-> cancelShown,
     cancelClicked |-> cancelClicked, ticked |-> ticked]

NoPage == Page("off", "absent", FALSE, FALSE, FALSE)
FreshPage == Page("shown", "absent", FALSE, FALSE, FALSE)

\* -------------------------------------------------------- save_student
\* A NIM is the text the form field holds: a sequence of characters.
NimChars == {"1", " "}
Names == {"a", "b"}
Sessions == {"s1", "s2"}

RECURSIVE lstrip(_)
lstrip(t) == IF t # <<>> /\ Head(t) = " " THEN lstrip(Tail(t)) ELSE t

RECURSIVE rstrip(_)
rstrip(t) ==
    IF t # <<>> /\ t[Len(t)] = " " THEN rstrip(SubSeq(t, 1, Len(t) - 1)) ELSE t

\* str.strip()
strip(t) == rstrip(lstrip(t))

RECURSIVE TextsUpTo(_)
TextsUpTo(n) ==
    IF n = 0 THEN {<<>>}
    ELSE LET shorter == TextsUpTo(n - 1)
         IN shorter \cup {Append(t, c) : t \in shorter, c \in NimChars}

\* line 739: the form calls save_student only for a non-empty field
NimInputs == TextsUpTo(MaxNimLen) \ {<<>>}

\* .select("*").eq("nim", nim): the rows whose nim column equals the value
SelectEq(table, nim) == {i \in 1..Len(table) : table[i].nim = nim}

\* .update(data).eq("nim", nim)
UpdateEq(table, nim, data) ==
    [i \in 1..Len(table) |-> IF table[i].nim = nim THEN data ELSE table[i]]

\* lines 83-89: the row the call writes
student_data(nim, nama) == [nim |-> strip(nim), nama |-> nama]

\* line 92: the value the existence check and the update filter on
student_key(nim) == nim

\* .insert(data) under a table that may or may not declare nim unique
InsertRaises(table, data, unique) == unique /\ SelectEq(table, data.nim) # {}

NoSess ==
    [pc |-> "idle", nim |-> <<>>, nama |-> "a", enrolled |-> FALSE,
     existing |-> FALSE, wrote |-> "-", fault |-> FALSE]

\* ------------------------------------------------- check_face_quality
\* det = [raised, decoded, cascade, nfaces, faceArea, imgArea]
check_face_quality_FirstFace(opencv, det) ==
    IF ~opencv THEN <<TRUE, "opencv_unavailable">>
    ELSE IF det.raised THEN <<FALSE, "error">>
    ELSE IF ~det.decoded THEN <<FALSE, "invalid_image">>
    ELSE IF ~det.cascade THEN <<TRUE, "detector_unavailable">>
    ELSE IF det.nfaces = 0 THEN <<FALSE, "no_face">>
    ELSE IF det.faceArea * 10 < det.imgArea THEN <<FALSE, "face_too_small">>
    ELSE IF det.faceArea * 10 > det.imgArea * 8 THEN <<FALSE, "face_too_large">>
    ELSE <<TRUE, "face_detected">>

check_face_quality_UpToTwo(opencv, det) ==
    IF ~opencv THEN <<TRUE, "opencv_unavailable">>
    ELSE IF det.raised THEN <<FALSE, "error">>
    ELSE IF ~det.decoded THEN <<FALSE, "invalid_image">>
    ELSE IF ~det.cascade THEN <<TRUE, "detector_unavailable">>
    ELSE IF det.nfaces = 0 THEN <<FALSE, "no_face">>
    ELSE IF det.nfaces > 2 THEN <<FALSE, "multiple_faces">>
    ELSE IF det.faceArea * 10 < det.imgArea THEN <<FALSE, "face_too_small">>
    ELSE IF det.faceArea * 10 > det.imgArea * 8 THEN <<FALSE, "face_too_large">>
    ELSE <<TRUE, "face_detected">>

check_face_quality_NeedsOpenCV(opencv, det) ==
    IF ~opencv THEN <<FALSE, "opencv_unavailable">>
    ELSE IF det.raised THEN <<FALSE, "error">>
    ELSE IF ~det.decoded THEN <<FALSE, "invalid_image">>
    ELSE IF ~det.cascade THEN <<TRUE, "detector_unavailable">>
    ELSE IF det.nfaces = 0 THEN <<FALSE, "no_face">>
    ELSE IF det.nfaces > 1 THEN <<FALSE, "multiple_faces">>
    ELSE IF det.faceArea * 10 < det.imgArea THEN <<FALSE, "face_too_small">>
    ELSE IF det.faceArea * 10 > det.imgArea * 8 THEN <<FALSE, "face_too_large">>
    ELSE <<TRUE, "face_detected">>

check_face_quality(opencv, det) ==
    IF ~opencv THEN <<TRUE, "opencv_unavailable">>
    ELSE IF det.raised THEN <<FALSE, "error">>
    ELSE IF ~det.decoded THEN <<FALSE, "invalid_image">>
    ELSE IF ~det.cascade THEN <<TRUE, "detector_unavailable">>
    ELSE IF det.nfaces = 0 THEN <<FALSE, "no_face">>
    ELSE IF det.nfaces > 1 THEN <<FALSE, "multiple_faces">>
    ELSE IF det.faceArea * 10 < det.imgArea THEN <<FALSE, "face_too_small">>
    ELSE IF det.faceArea * 10 > det.imgArea * 8 THEN <<FALSE, "face_too_large">>
    ELSE <<TRUE, "face_detected">>

\* what the decoder and the detector meet in one image; the fields the code
\* does not get to read are left at a fixed value
Detections ==
    {d \in [raised : BOOLEAN, decoded : BOOLEAN, cascade : BOOLEAN,
            nfaces : 0..MaxFaces, faceArea : FaceAreas \cup {0}, imgArea : {100}] :
        /\ d.raised => ~d.decoded
        /\ ~d.decoded => ~d.cascade
        /\ ~d.cascade => d.nfaces = 0
        /\ (d.nfaces = 0 <=> d.faceArea = 0)
        /\ d.nfaces > 1 => d.faceArea = 10}

NoDetection ==
    [raised |-> FALSE, decoded |-> FALSE, cascade |-> FALSE,
     nfaces |-> 0, faceArea |-> 0, imgArea |-> 100]
NoGate ==
    [ran |-> FALSE, detected |-> FALSE, nfaces |-> 0, faceArea |-> 0,
     ok |-> FALSE, reason |-> "-"]

\* what check_face_quality got to see of the image: nothing without OpenCV
Seen(opencv, det) == IF opencv THEN det ELSE NoDetection

\* --------------------------------------------- compare_faces_deepface
\* run = [decoded, raised, distance, verified]: whether both base64 strings
\* decode and the temporary files are written, whether DeepFace.verify
\* raises, and the distance and verified flag it reports.
compare_faces_deepface(available, run) ==
    IF ~available THEN <<FALSE, 0, 0>>
    ELSE IF ~run.decoded THEN <<FALSE, 0, 0>>
    ELSE IF run.raised THEN <<FALSE, 0, 0>>
    ELSE <<run.verified, Max(0, 100 - run.distance), run.distance>>

\* failAt: the statement of lines 224-232 that raises, if one does: the
\* creation of a temporary file, or the decoding and writing of its content
DeepFaceRuns(ref) ==
    {r \in [decoded : IF ref = "corrupt" THEN {FALSE} ELSE BOOLEAN,
            failAt : {"none", "create1", "fill1", "create2", "fill2"},
            raised : BOOLEAN, distance : Distances, verified : BOOLEAN] :
        /\ r.decoded <=> r.failAt = "none"
        \* line 236 is not reached, so DeepFace.verify yields nothing
        /\ r.failAt # "none" => ~r.raised /\ r.distance = 0 /\ ~r.verified}

\* lines 224-232: the temporary files (delete=False) the call has created
TempFilesCreated(run) ==
    IF run.failAt = "create1" THEN {}
    ELSE IF run.failAt \in {"fill1", "create2"} THEN {"img1_path"}
    ELSE {"img1_path", "img2_path"}

\* the temporary files still on disk when compare_faces_deepface returns:
\* lines 246-247 and 257-260 unlink both, the handler at 263-264 unlinks none
TempFilesLeft(run) ==
    IF run.failAt # "none" THEN TempFilesCreated(run) ELSE {}

DeepFaceFailed(run) == ~run.decoded \/ run.raised

\* ----------------------------------------------- compare_faces_simple
\* run = [opened, zeroNorm, similarity]: whether both images decode and
\* open, whether one of the pixel vectors has norm 0, and the cosine
\* similarity in percent.
compare_faces_simple(run) ==
    IF ~run.opened THEN <<FALSE, 0>>
    ELSE IF run.zeroNorm THEN <<FALSE, 0>>
    ELSE <<run.similarity > 65, run.similarity>>

SimpleRuns(ref) ==
    [opened : IF ref = "corrupt" THEN {FALSE} ELSE BOOLEAN,
     zeroNorm : BOOLEAN, similarity : Percents]

SimpleFailed(run) == ~run.opened

\* --------------------------------------------- verify_face_attendance
\* lines 305-309: the two guards at the head of the function.
verify_entry_NoRefCheck(ref, photo) ==
    IF photo = "missing" THEN "no_photo" ELSE "continue"

verify_entry(ref, photo) ==
    IF photo = "missing" THEN "no_photo"
    ELSE IF ref = "none" THEN "no_reference"
    ELSE "continue"

\* lines 313-317: Image.open raises on an undecodable photo (caught at
\* line 348); image_to_base64 returns None when it cannot encode.
normalize(photo) ==
    IF photo = "undecodable" THEN "raised"
    ELSE IF photo = "unencodable" THEN "process_failed"
    ELSE "encoded"

\* lines 329-335
DeepFaceVerdict_Accept70(match, confidence) ==
    IF match /\ confidence > 70
    THEN Verdict(TRUE, confidence, Msg("match", "DeepFace", "-", confidence))
    ELSE IF confidence > 40
    THEN Verdict(FALSE, confidence, Msg("low", "DeepFace", "-", confidence))
    ELSE Verdict(FALSE, confidence, Msg("no_match", "DeepFace", "-", confidence))

DeepFaceVerdict(match, confidence) ==
    IF match /\ confidence > 60
    THEN Verdict(TRUE, confidence, Msg("match", "DeepFace", "-", confidence))
    ELSE IF confidence > 40
    THEN Verdict(FALSE, confidence, Msg("low", "DeepFace", "-", confidence))
    ELSE Verdict(FALSE, confidence, Msg("no_match", "DeepFace", "-", confidence))

\* lines 341-346
SimpleVerdict_DeepFaceLabel(match, confidence) ==
    IF match /\ confidence > 70
    THEN Verdict(TRUE, confidence, Msg("match", "DeepFace", "-", confidence))
    ELSE IF confidence > 50
    THEN Verdict(FALSE, confidence, Msg("low", "DeepFace", "-", confidence))
    ELSE Verdict(FALSE, confidence, Msg("no_match", "DeepFace", "-", confidence))

SimpleVerdict(match, confidence) ==
    IF match /\ confidence > 70
    THEN Verdict(TRUE, confidence, Msg("match", "SimpleMatch", "-", confidence))
    ELSE IF confidence > 50
    THEN Verdict(FALSE, confidence, Msg("low", "SimpleMatch", "-", confidence))
    ELSE Verdict(FALSE, confidence, Msg("no_match", "SimpleMatch", "-", confidence))

\* lines 324-346: the tiers one verification runs, in order.  Every branch
\* under "if DEEPFACE_AVAILABLE" returns, so SimpleMatch runs only without it.
tier_order_Fallthrough(deepface) ==
    IF deepface THEN <<"DeepFace", "SimpleMatch">> ELSE <<"SimpleMatch">>

tier_order(deepface) ==
    IF deepface THEN <<"DeepFace">> ELSE <<"SimpleMatch">>

TierCall(tier) ==
    IF tier = "DeepFace" THEN "compare_faces_deepface" ELSE "compare_faces_simple"

TiersCalled(log) == SelectSeq(log, LAMBDA c : c \in {TierCall("DeepFace"), TierCall("SimpleMatch")})

\* ------------------------------------------------------ save_attendance
\* lines 104-124: returns <<success, table>>.
save_attendance_Upsert(table, supabase, confidence, insertOk) ==
    IF ~supabase THEN <<FALSE, table>>
    ELSE IF ~insertOk THEN <<FALSE, table>>
    ELSE <<TRUE, <<[confidence |-> confidence]>> >>

save_attendance(table, supabase, confidence, insertOk) ==
    IF ~supabase THEN <<FALSE, table>>
    ELSE IF ~insertOk THEN <<FALSE, table>>
    ELSE <<TRUE, Append(table, [confidence |-> confidence])>>

\* ---------------------------------- save_attendance_with_verification
\* lines 391-429: what follows the verdict.
HandleVerification_Floor50(v, override, cancel) ==
    IF ~v.matched
    THEN IF v.confidence > 50
         THEN [offered |-> TRUE,
               next |-> IF cancel THEN "cancelled"
                        ELSE IF ~override THEN "verify_failed"
                        ELSE "store"]
         ELSE [offered |-> FALSE, next |-> "mismatch"]
    ELSE [offered |-> FALSE, next |-> "store"]

HandleVerification_OverrideFirst(v, override, cancel) ==
    IF ~v.matched
    THEN IF v.confidence > 40
         THEN [offered |-> TRUE,
               next |-> IF override THEN "store"
                        ELSE IF cancel THEN "cancelled"
                        ELSE "verify_failed"]
         ELSE [offered |-> FALSE, next |-> "mismatch"]
    ELSE [offered |-> FALSE, next |-> "store"]

HandleVerification_FloorAt40(v, override, cancel) ==
    IF ~v.matched
    THEN IF v.confidence >= 40
         THEN [offered |-> TRUE,
               next |-> IF cancel THEN "cancelled"
                        ELSE IF ~override THEN "verify_failed"
                        ELSE "store"]
         ELSE [offered |-> FALSE, next |-> "mismatch"]
    ELSE [offered |-> FALSE, next |-> "store"]

HandleVerification(v, override, cancel) ==
    IF ~v.matched
    THEN IF v.confidence > 40
         THEN [offered |-> TRUE,
               next |-> IF cancel THEN "cancelled"
                        ELSE IF ~override THEN "verify_failed"
                        ELSE "store"]
         ELSE [offered |-> FALSE, next |-> "mismatch"]
    ELSE [offered |-> FALSE, next |-> "store"]

\* Image.open(attendance_photo) at lines 363, 426 and 432.
PhotoOpens(photo) == photo \in {"unencodable", "ok"}

\* lines 420-427: both photos are decoded for display.
ShowBothPhotos(ref, photo) ==
    IF ref = "valid" /\ PhotoOpens(photo) THEN "shown" ELSE "raised"

\* ----------------------------------------------------------- try blocks
\* The lines whose exceptions each function catches itself: the try block of
\* verify_face_attendance (311-349) and of save_attendance_with_verification
\* (354-454).
TryLines_LateTry(fn) ==
    IF fn = "verify_face_attendance" THEN 319..349 ELSE 381..454

TryLines(fn) ==
    IF fn = "verify_face_attendance" THEN 311..349 ELSE 354..454

Caught(fn, line) == line \in TryLines(fn)

\* an exception raised at a line of verify_face_attendance: caught there,
\* else by the caller's try block around line 382, else it leaves the call
RaisedInVerify(line) ==
    IF Caught("verify_face_attendance", line) THEN "verdict"
    ELSE IF entry = "save" /\ Caught("save_attendance_with_verification", 382)
    THEN "result"
    ELSE "raised"

\* ================================================================ state
Init ==
    /\ DEEPFACE_AVAILABLE \in BOOLEAN
    /\ OPENCV_AVAILABLE \in BOOLEAN
    /\ attendance = <<>>
    /\ attendance0 = <<>>
    /\ pc = "idle"
    /\ entry = "-"
    /\ args = NoArgs
    /\ calls = <<>>
    /\ gate = NoGate
    /\ tierRun = NoTier
    /\ verdict = NoVerdict
    /\ ui = NoUi
    /\ result = NoResult
    /\ tmpfiles = {}
    /\ page = NoPage
    /\ students = <<>>
    /\ sess = [s \in Sessions |-> NoSess]
    /\ NIM_UNIQUE = FALSE

Env == <<DEEPFACE_AVAILABLE, OPENCV_AVAILABLE>>

\* lines 117-124: the insert succeeds or raises; a table that has reached
\* MaxRecords rows accepts no more
InsertOutcomes == IF Len(attendance) < MaxRecords THEN BOOLEAN ELSE {FALSE}
Enrolment == <<students, sess, NIM_UNIQUE>>

\* A direct call of verify_face_attendance(reference_base64, attendance_photo).
CallVerify ==
    /\ pc = "idle"
    /\ \E r \in RefStates, p \in PhotoStates :
          args' = [ref |-> r, photo |-> p, supabase |-> FALSE]
    /\ entry' = "verify"
    /\ pc' = "verify_entry"
    /\ attendance0' = attendance
    /\ UNCHANGED <<Env, Enrolment, page, tmpfiles, gate, attendance, calls, tierRun, verdict, ui, result>>

\* A call of save_attendance_with_verification(supabase, student, photo, status).
CallSave ==
    /\ pc = "idle"
    /\ Len(attendance) < MaxRecords
    /\ \E r \in RefStates, p \in PhotoStates, s \in BOOLEAN :
          args' = [ref |-> r, photo |-> p, supabase |-> s]
    /\ entry' = "save"
    /\ pc' = "save_entry"
    /\ attendance0' = attendance
    /\ UNCHANGED <<Env, Enrolment, page, tmpfiles, gate, attendance, calls, tierRun, verdict, ui, result>>

\* lines 356-385: without a reference photo the record is stored unverified;
\* otherwise verify_face_attendance is called.
SaveEntry ==
    /\ pc = "save_entry"
    /\ IF args.ref = "none"
       THEN IF ~PhotoOpens(args.photo)
            THEN /\ IF Caught("save_attendance_with_verification", 363)
                    THEN /\ result' = [success |-> FALSE, message |-> "error"]
                         /\ pc' = "done"
                    ELSE /\ pc' = "raised"
                         /\ UNCHANGED result
                 /\ UNCHANGED <<attendance, calls>>
            ELSE IF args.supabase
            THEN \E insertOk \in InsertOutcomes :
                    LET r == save_attendance(attendance, args.supabase, 0, insertOk)
                    IN /\ attendance' = r[2]
                       /\ calls' = Append(calls, "save_attendance")
                       /\ result' = [success |-> r[1], message |-> "saved_unverified"]
                       /\ pc' = "done"
            ELSE /\ result' = [success |-> TRUE, message |-> "saved_unverified"]
                 /\ pc' = "done"
                 /\ UNCHANGED <<attendance, calls>>
       ELSE /\ pc' = "verify_entry"
            /\ UNCHANGED <<attendance, calls, result>>
    /\ UNCHANGED <<Env, Enrolment, page, tmpfiles, gate, attendance0, entry, args, tierRun, verdict, ui>>

\* where verify_face_attendance returns to
Returned == IF entry = "verify" THEN "done" ELSE "handle"

\* lines 305-309
VerifyEntry ==
    /\ pc = "verify_entry"
    /\ LET e == verify_entry(args.ref, args.photo)
       IN IF e = "no_photo"
          THEN /\ verdict' = Verdict(FALSE, 0, Msg("no_photo", "-", "-", 0))
               /\ pc' = Returned
          ELSE IF e = "no_reference"
          THEN /\ verdict' = Verdict(FALSE, 0, Msg("no_reference", "-", "-", 0))
               /\ pc' = Returned
          ELSE /\ pc' = "normalize"
               /\ UNCHANGED verdict
    /\ UNCHANGED <<Env, Enrolment, page, tmpfiles, gate, attendance, attendance0, entry, args, calls, tierRun, ui, result>>

\* lines 313-317 (and the handler at 348-349)
Normalize ==
    /\ pc = "normalize"
    /\ LET n == normalize(args.photo)
       IN IF n = "raised"
          THEN LET x == RaisedInVerify(313)
               IN IF x = "verdict"
                  THEN /\ verdict' = Verdict(FALSE, 0, Msg("error", "-", "-", 0))
                       /\ pc' = Returned
                       /\ UNCHANGED result
                  ELSE IF x = "result"
                  THEN /\ result' = [success |-> FALSE, message |-> "error"]
                       /\ pc' = "done"
                       /\ UNCHANGED verdict
                  ELSE /\ pc' = "raised"
                       /\ UNCHANGED <<verdict, result>>
          ELSE IF n = "process_failed"
          THEN /\ verdict' = Verdict(FALSE, 0, Msg("process_failed", "-", "-", 0))
               /\ pc' = Returned
               /\ UNCHANGED result
          ELSE /\ pc' = "quality"
               /\ UNCHANGED <<verdict, result>>
    /\ UNCHANGED <<Env, Enrolment, page, tmpfiles, gate, attendance, attendance0, entry, args, calls, tierRun, ui>>

\* lines 320-322
QualityGate ==
    /\ pc = "quality"
    /\ \E det \in Detections :
          LET q == check_face_quality(OPENCV_AVAILABLE, det)
          IN /\ gate' = [ran |-> TRUE,
                         detected |-> Seen(OPENCV_AVAILABLE, det).cascade,
                         nfaces |-> Seen(OPENCV_AVAILABLE, det).nfaces,
                         faceArea |-> Seen(OPENCV_AVAILABLE, det).faceArea,
                         ok |-> q[1], reason |-> q[2]]
             /\ IF ~q[1]
                THEN /\ verdict' = Verdict(FALSE, 0, Msg("bad_quality", "-", q[2], 0))
                     /\ pc' = Returned
                ELSE /\ pc' = "tiers"
                     /\ UNCHANGED verdict
    /\ calls' = Append(calls, "check_face_quality")
    /\ UNCHANGED <<Env, Enrolment, page, tmpfiles, attendance, attendance0, entry, args, tierRun, ui, result>>

\* the tier that runs next, and where control goes after it
NextTier == tier_order(DEEPFACE_AVAILABLE)[Len(TiersCalled(calls)) + 1]
AfterTier ==
    IF Len(TiersCalled(calls)) + 1 < Len(tier_order(DEEPFACE_AVAILABLE))
    THEN "tiers" ELSE Returned

\* lines 325-335
TierDeepFace ==
    /\ pc = "tiers"
    /\ NextTier = "DeepFace"
    /\ \E df \in DeepFaceRuns(args.ref) :
          LET r == compare_faces_deepface(DEEPFACE_AVAILABLE, df)
          IN /\ tierRun' = [tier |-> "DeepFace", failed |-> DeepFaceFailed(df),
                            match |-> r[1], confidence |-> r[2]]
             /\ verdict' = DeepFaceVerdict(r[1], r[2])
             /\ tmpfiles' = TempFilesLeft(df)
    /\ calls' = Append(calls, TierCall("DeepFace"))
    /\ pc' = AfterTier
    /\ UNCHANGED <<Env, Enrolment, page, gate, attendance, attendance0, entry, args, ui, result>>

\* lines 338-346
TierSimple ==
    /\ pc = "tiers"
    /\ NextTier = "SimpleMatch"
    /\ \E sm \in SimpleRuns(args.ref) :
          LET r == compare_faces_simple(sm)
          IN /\ tierRun' = [tier |-> "SimpleMatch", failed |-> SimpleFailed(sm),
                            match |-> r[1], confidence |-> r[2]]
             /\ verdict' = SimpleVerdict(r[1], r[2])
    /\ calls' = Append(calls, TierCall("SimpleMatch"))
    /\ pc' = AfterTier
    /\ UNCHANGED <<Env, Enrolment, page, tmpfiles, gate, attendance, attendance0, entry, args, ui, result>>

\* lines 391-429, with the values st.checkbox and st.button return
HandleWith(override, cancel) ==
    /\ pc = "handle"
    /\    LET h == HandleVerification(verdict, override, cancel)
          IN /\ ui' = [offered |-> h.offered,
                       override |-> h.offered /\ override,
                       cancel |-> h.offered /\ cancel]
             /\ IF h.next = "store"
                THEN /\ pc' = "store"
                     /\ UNCHANGED result
                ELSE IF h.next = "mismatch"
                        /\ ShowBothPhotos(args.ref, args.photo) = "raised"
                THEN IF Caught("save_attendance_with_verification", 420)
                     THEN /\ pc' = "done"
                          /\ result' = [success |-> FALSE, message |-> "error"]
                     ELSE /\ pc' = "raised"
                          /\ UNCHANGED result
                ELSE /\ pc' = "done"
                     /\ result' = [success |-> FALSE, message |-> h.next]
    /\ UNCHANGED <<Env, Enrolment, page, tmpfiles, gate, attendance, attendance0, entry, args, calls, tierRun, verdict>>

\* a direct call: the caller's widgets may hold any value
Handle ==
    /\ page.phase = "off"
    /\ \E override \in BOOLEAN, cancel \in BOOLEAN : HandleWith(override, cancel)

\* lines 432-451
Store ==
    /\ pc = "store"
    /\ IF ~PhotoOpens(args.photo)
       THEN /\ IF Caught("save_attendance_with_verification", 432)
               THEN /\ result' = [success |-> FALSE, message |-> "error"]
                    /\ pc' = "done"
               ELSE /\ pc' = "raised"
                    /\ UNCHANGED result
            /\ UNCHANGED <<attendance, calls>>
       ELSE IF args.supabase
       THEN \E insertOk \in InsertOutcomes :
               LET r == save_attendance(attendance, args.supabase,
                                        verdict.confidence, insertOk)
               IN /\ attendance' = r[2]
                  /\ calls' = Append(calls, "save_attendance")
                  /\ result' = [success |-> r[1],
                                message |-> IF r[1] THEN "success" ELSE "db_failed"]
                  /\ pc' = "done"
       ELSE /\ result' = [success |-> TRUE, message |-> "success"]
            /\ pc' = "done"
            /\ UNCHANGED <<attendance, calls>>
    /\ UNCHANGED <<Env, Enrolment, page, tmpfiles, gate, attendance0, entry, args, tierRun, verdict, ui>>

\* the call has returned (or raised); the next one starts afresh
Return ==
    /\ pc \in {"done", "raised"}
    /\ pc' = "idle"
    /\ entry' = "-"
    /\ args' = NoArgs
    /\ calls' = <<>>
    /\ gate' = NoGate
    /\ tierRun' = NoTier
    /\ verdict' = NoVerdict
    /\ ui' = NoUi
    /\ result' = NoResult
    /\ tmpfiles' = {}
    /\ attendance0' = attendance
    /\ UNCHANGED <<Env, Enrolment, page, attendance>>

Next ==
    \/ CallVerify
    \/ CallSave
    \/ SaveEntry
    \/ VerifyEntry
    \/ Normalize
    \/ QualityGate
    \/ TierDeepFace
    \/ TierSimple
    \/ Handle
    \/ Store
    \/ Return

Spec == Init /\ [][Next]_vars

TypeOK ==
    /\ pc \in {"idle", "save_entry", "verify_entry", "normalize", "quality",
               "tiers", "handle", "store", "done", "raised", "rerun"}
    /\ Len(attendance) <= MaxRecords
    /\ entry \in {"-", "verify", "save"}

\* ===================================================== the attendance page
\* main(), lines 576-614, under Streamlit's execution model: every click or
\* toggle starts a new run of the script; st.button returns True only in
\* the run its click started; a widget the run does not render loses its
\* state when the run ends.

\* lines 595-601: what one script run does with the "Simpan Absensi" button
main_submit(simpan, photo) ==
    IF ~simpan THEN "skip"
    ELSE IF photo = "missing" THEN "no_photo_error"
    ELSE "call"

\* the widgets of save_attendance_with_verification left on the page by a
\* run that rendered them (offered) or did not
Rendered(offered, p) ==
    Page("shown", IF offered THEN "unticked" ELSE "absent", offered, FALSE,
         p.ticked)

InitUI ==
    /\ DEEPFACE_AVAILABLE \in BOOLEAN
    /\ OPENCV_AVAILABLE \in BOOLEAN
    /\ attendance = <<>>
    /\ attendance0 = <<>>
    /\ pc = "idle"
    /\ entry = "-"
    /\ args = NoArgs
    /\ calls = <<>>
    /\ gate = NoGate
    /\ tierRun = NoTier
    /\ verdict = NoVerdict
    /\ ui = NoUi
    /\ result = NoResult
    /\ tmpfiles = {}
    /\ page = FreshPage
    /\ students = <<>>
    /\ sess = [s \in Sessions |-> NoSess]
    /\ NIM_UNIQUE = FALSE

Transient == <<entry, args, calls, gate, tierRun, verdict, ui, result, tmpfiles>>

\* The operator clicks "Simpan Absensi" (line 595) for some student and
\* photo; the run that follows reaches line 596 or the call at line 601.
UIClickSimpan ==
    /\ page.phase = "shown" /\ pc = "idle"
    /\ \E r \in RefStates, p \in PhotoStates, s \in BOOLEAN :
          IF main_submit(TRUE, p) = "call"
          THEN /\ args' = [ref |-> r, photo |-> p, supabase |-> s]
               /\ entry' = "save"
               /\ pc' = "save_entry"
               /\ page' = [Rendered(FALSE, page) EXCEPT !.phase = "running"]
          ELSE /\ page' = Rendered(FALSE, page)
               /\ UNCHANGED <<args, entry, pc>>
    /\ attendance0' = attendance
    /\ UNCHANGED <<Env, Enrolment, attendance, calls, gate, tierRun, verdict, ui, result, tmpfiles>>

\* lines 401-407 in a run of the page: the checkbox returns its widget state
\* and the cancel button whether its click started this run
UIHandle ==
    /\ page.phase = "running"
    /\ HandleWith(page.checkbox = "ticked", page.cancelClicked)

\* lines 608-614 and the end of the run: after a success st.rerun() starts a
\* run that renders none of the function's widgets
UIRunEnd ==
    /\ page.phase = "running" /\ pc \in {"done", "raised"}
    /\ page' = IF pc = "done" /\ result.success
               THEN Rendered(FALSE, page)
               ELSE Rendered(ui.offered, page)
    /\ pc' = "idle"
    /\ entry' = "-"
    /\ args' = NoArgs
    /\ calls' = <<>>
    /\ gate' = NoGate
    /\ tierRun' = NoTier
    /\ verdict' = NoVerdict
    /\ ui' = NoUi
    /\ result' = NoResult
    /\ tmpfiles' = {}
    /\ attendance0' = attendance
    /\ UNCHANGED <<Env, Enrolment, attendance>>

\* The operator ticks "Ya, tetap simpan" (line 401): a new run starts.
UITickOverride ==
    /\ page.phase = "shown" /\ pc = "idle"
    /\ page.checkbox = "unticked"
    /\ page' = [page EXCEPT !.phase = "running", !.checkbox = "ticked",
                            !.ticked = TRUE]
    /\ pc' = "rerun"
    /\ UNCHANGED <<Env, Enrolment, attendance, attendance0, Transient>>

\* The operator clicks "Batalkan" (line 403): a new run starts.
UIClickBatalkan ==
    /\ page.phase = "shown" /\ pc = "idle"
    /\ page.cancelShown
    /\ page' = [page EXCEPT !.phase = "running", !.cancelClicked = TRUE]
    /\ pc' = "rerun"
    /\ UNCHANGED <<Env, Enrolment, attendance, attendance0, Transient>>

\* The run a toggle or the cancel button started: "Simpan Absensi" is False
\* at line 595, save_attendance_with_verification is not called, and the
\* widgets it had rendered are gone when the run ends.
UIRerun ==
    /\ page.phase = "running" /\ pc = "rerun"
    /\ main_submit(FALSE, args.photo) = "skip"
    /\ page' = Rendered(FALSE, page)
    /\ pc' = "idle"
    /\ UNCHANGED <<Env, Enrolment, attendance, attendance0, Transient>>

ScriptRun ==
    \/ SaveEntry
    \/ VerifyEntry
    \/ Normalize
    \/ QualityGate
    \/ TierDeepFace
    \/ TierSimple
    \/ UIHandle
    \/ Store
    \/ UIRunEnd
    \/ UIRerun

NextUI ==
    \/ UIClickSimpan
    \/ UITickOverride
    \/ UIClickBatalkan
    \/ SaveEntry
    \/ VerifyEntry
    \/ Normalize
    \/ QualityGate
    \/ TierDeepFace
    \/ TierSimple
    \/ UIHandle
    \/ Store
    \/ UIRunEnd
    \/ UIRerun

\* A started script run goes on to its end; the operator keeps submitting.
SpecUI ==
    InitUI /\ [][NextUI]_vars /\ WF_vars(ScriptRun) /\ WF_vars(UIClickSimpan)

\* ======================================================== student records
\* save_student, lines 77-102, called from two browser sessions against one
\* students table; each request to the table is one step.

InitStudents ==
    /\ DEEPFACE_AVAILABLE \in BOOLEAN
    /\ OPENCV_AVAILABLE \in BOOLEAN
    /\ attendance = <<>>
    /\ attendance0 = <<>>
    /\ pc = "idle"
    /\ entry = "-"
    /\ args = NoArgs
    /\ calls = <<>>
    /\ gate = NoGate
    /\ tierRun = NoTier
    /\ verdict = NoVerdict
    /\ ui = NoUi
    /\ result = NoResult
    /\ tmpfiles = {}
    /\ page = NoPage
    /\ students = <<>>
    /\ sess = [s \in Sessions |-> NoSess]
    /\ NIM_UNIQUE \in BOOLEAN

Attendance == <<attendance, attendance0, pc, entry, args, calls, gate, tierRun,
                verdict, ui, result, tmpfiles, page>>

\* lines 77-80: the call and its client test
StudentCall(s) ==
    /\ sess[s].pc = "idle"
    /\ Len(students) < MaxStudents
    /\ \E nim \in NimInputs, nama \in Names, supabase \in BOOLEAN :
          sess' = [sess EXCEPT ![s] =
                     [pc |-> IF supabase THEN "check" ELSE "done",
                      nim |-> nim, nama |-> nama,
                      enrolled |-> SelectEq(students, strip(nim)) # {},
                      existing |-> FALSE, wrote |-> "-",
                      fault |-> ~supabase]]
    /\ UNCHANGED <<Env, Attendance, students, NIM_UNIQUE>>

\* line 92: the existence check; a failed request raises into line 100
StudentCheck(s) ==
    /\ sess[s].pc = "check"
    /\ \E raised \in BOOLEAN :
          sess' = [sess EXCEPT ![s] =
                     IF raised THEN [@ EXCEPT !.pc = "done", !.fault = TRUE]
                     ELSE [@ EXCEPT !.pc = "write",
                                    !.existing =
                                       SelectEq(students,
                                                student_key(sess[s].nim)) # {}]]
    /\ UNCHANGED <<Env, Attendance, students, NIM_UNIQUE>>

\* lines 93-99: update the rows the filter selects, or insert the new row
StudentWrite(s) ==
    /\ sess[s].pc = "write"
    /\ LET data == student_data(sess[s].nim, sess[s].nama)
       IN IF sess[s].existing
          THEN /\ students' = UpdateEq(students, student_key(sess[s].nim), data)
               /\ sess' = [sess EXCEPT ![s] =
                             [@ EXCEPT !.pc = "done", !.wrote = "update"]]
          ELSE IF InsertRaises(students, data, NIM_UNIQUE)
          THEN /\ sess' = [sess EXCEPT ![s] = [@ EXCEPT !.pc = "done"]]
               /\ UNCHANGED students
          ELSE /\ students' = Append(students, data)
               /\ sess' = [sess EXCEPT ![s] =
                             [@ EXCEPT !.pc = "done", !.wrote = "insert"]]
    /\ UNCHANGED <<Env, Attendance, NIM_UNIQUE>>

\* the caller has the result (lines 756-759) and the session is free again
StudentReturn(s) ==
    /\ sess[s].pc = "done"
    /\ sess' = [sess EXCEPT ![s] = NoSess]
    /\ UNCHANGED <<Env, Attendance, students, NIM_UNIQUE>>

NextStudents ==
    \E s \in Sessions :
        \/ StudentCall(s)
        \/ StudentCheck(s)
        \/ StudentWrite(s)
        \/ StudentReturn(s)

SpecStudents == InitStudents /\ [][NextStudents]_vars

\* ============================================================== claims
\* verify_face_attendance has returned its verdict
Verified ==
    \/ entry = "verify" /\ pc = "done"
    \/ entry = "save" /\ args.ref # "none" /\ pc \in {"handle", "store", "done"}

\* save_attendance_with_verification has returned
Saved == entry = "save" /\ pc = "done"

TierRan(t) == Verified /\ tierRun.tier = t
Invoked(f) == \E i \in 1..Len(calls) : calls[i] = f
Accepted == verdict.matched
Borderline == ~verdict.matched /\ verdict.message.kind = "low"
RecordWritten == attendance # attendance0

\* C1 (as stated): the first tier accepts every confidence at or above its
\* accept threshold (DeepFace 60, SimpleMatch 70), whatever the match flag.
C1_AcceptAtThreshold ==
    /\ TierRan("DeepFace") /\ tierRun.confidence >= 60 => Accepted
    /\ TierRan("SimpleMatch") /\ tierRun.confidence >= 70 => Accepted

\* C1 (amended): the first tier accepts every confidence strictly above its
\* accept threshold for which the tier's match flag is true, and the verdict
\* carries that confidence and names that tier.
C1_AcceptAboveThreshold ==
    /\ TierRan("DeepFace") /\ tierRun.match /\ tierRun.confidence > 60
         => /\ Accepted
            /\ verdict.confidence = tierRun.confidence
            /\ verdict.message = Msg("match", "DeepFace", "-", tierRun.confidence)
    /\ TierRan("SimpleMatch") /\ tierRun.match /\ tierRun.confidence > 70
         => /\ Accepted
            /\ verdict.confidence = tierRun.confidence
            /\ verdict.message = Msg("match", "SimpleMatch", "-", tierRun.confidence)

C1_Witness ==
    /\ TierRan("DeepFace") /\ tierRun.match /\ tierRun.confidence = 65
    /\ Accepted

\* C2: a confidence below the tier's reject floor (DeepFace 40, SimpleMatch
\* 50) ends save_attendance_with_verification in a rejection: no override
\* is offered and no record is written.
C2_BelowFloorRejected ==
    Saved /\ \/ tierRun.tier = "DeepFace" /\ tierRun.confidence < 40
             \/ tierRun.tier = "SimpleMatch" /\ tierRun.confidence < 50
    => /\ ~ui.offered
       /\ ~result.success
       /\ ~RecordWritten
       /\ ~Invoked("save_attendance")

\* C3: save_attendance is invoked only after an accepted verdict or a
\* borderline verdict the operator overrode; otherwise nothing is written.
C3_RecorderOnlyAfterAcceptOrOverride ==
    entry = "save" /\ (Invoked("save_attendance") \/ RecordWritten)
    => \/ Verified /\ Accepted
       \/ Verified /\ Borderline /\ ui.offered /\ ui.override

\* C4 (as stated): a confidence in [floor, accept) of the tier that ran is
\* borderline: not accepted, the low-similarity rationale, and the caller
\* is asked to confirm before any record is saved.
C4_BorderlineBandClosed ==
    /\ \/ TierRan("DeepFace") /\ tierRun.confidence >= 40 /\ tierRun.confidence < 60
       \/ TierRan("SimpleMatch") /\ tierRun.confidence >= 50 /\ tierRun.confidence < 70
    => /\ Borderline
       /\ entry = "save" /\ pc \in {"store", "done"} => ui.offered

\* C4 (amended): the same for a confidence strictly above the floor.
C4_BorderlineBandOpen ==
    /\ \/ TierRan("DeepFace") /\ tierRun.confidence > 40 /\ tierRun.confidence < 60
       \/ TierRan("SimpleMatch") /\ tierRun.confidence > 50 /\ tierRun.confidence < 70
    => /\ Borderline
       /\ verdict.confidence = tierRun.confidence
       /\ entry = "save" /\ pc \in {"store", "done"} => ui.offered
       /\ Invoked("save_attendance") => ui.override /\ ~ui.cancel

C4_Witness ==
    /\ Saved /\ tierRun.tier = "DeepFace" /\ tierRun.confidence = 45
    /\ Borderline /\ ui.offered /\ ui.override /\ RecordWritten

\* C5 (as stated): without a reference image verification returns
\* NoReferencePhoto at once for every state of the captured photo, and
\* neither the quality gate nor a tier runs.
C5_NoReferenceAlways ==
    entry = "verify" /\ pc = "done" /\ args.ref = "none"
    => /\ verdict = Verdict(FALSE, 0, Msg("no_reference", "-", "-", 0))
       /\ calls = <<>>

\* C5 (amended): the same when a captured photo is supplied; with the photo
\* missing the verdict is the no-photo one.  In both functions no quality
\* gate and no tier runs without a reference image.
C5_NoReferenceWhenPhotoSupplied ==
    args.ref = "none" /\ pc = "done"
    => /\ ~gate.ran /\ tierRun = NoTier
       /\ ~Invoked("check_face_quality")
       /\ ~Invoked("compare_faces_deepface")
       /\ ~Invoked("compare_faces_simple")
       /\ entry = "verify" =>
            verdict = IF args.photo = "missing"
                      THEN Verdict(FALSE, 0, Msg("no_photo", "-", "-", 0))
                      ELSE Verdict(FALSE, 0, Msg("no_reference", "-", "-", 0))

C5_Witness ==
    /\ entry = "verify" /\ pc = "done"
    /\ args.ref = "none" /\ args.photo = "undecodable"
    /\ verdict.message.kind = "no_reference"

\* C6: with the face locator at work, a capture with no face, several
\* faces, a face too small or a face too large is rejected with confidence
\* 0 and the quality reason, and no comparison function has been invoked.
QualityFault ==
    IF gate.nfaces = 0 THEN "no_face"
    ELSE IF gate.nfaces > 1 THEN "multiple_faces"
    ELSE IF gate.faceArea < 10 THEN "face_too_small"
    ELSE IF gate.faceArea > 80 THEN "face_too_large"
    ELSE "-"

C6_QualityRejectionBeforeTiers ==
    OPENCV_AVAILABLE /\ gate.ran /\ gate.detected /\ QualityFault # "-"
    => /\ Verified
       /\ verdict = Verdict(FALSE, 0, Msg("bad_quality", "-", QualityFault, 0))
       /\ ~Invoked("compare_faces_deepface")
       /\ ~Invoked("compare_faces_simple")
       /\ tierRun = NoTier

C6_Witness ==
    /\ entry = "verify" /\ pc = "done" /\ OPENCV_AVAILABLE
    /\ gate.ran /\ gate.detected /\ gate.nfaces = 2
    /\ verdict.message.reason = "multiple_faces"

\* C7: one verification runs at most one comparison tier; once DeepFace
\* has been called SimpleMatch is not, and the verdict is DeepFace's.
C7_SingleTier ==
    /\ Len(TiersCalled(calls)) <= 1
    /\ Invoked("compare_faces_deepface")
         => /\ ~Invoked("compare_faces_simple")
            /\ Verified
            /\ tierRun.tier = "DeepFace"
            /\ verdict.confidence = tierRun.confidence
            /\ verdict.message.method = "DeepFace"
            /\ verdict.message.conf = tierRun.confidence

C7_Witness ==
    /\ Verified /\ Invoked("compare_faces_deepface")
    /\ ~tierRun.failed /\ tierRun.confidence = 55
    /\ verdict.message = Msg("low", "DeepFace", "-", 55)

\* C8: a tier that fails internally is skipped and the next tier is
\* attempted; the verdict is then the next tier's.
C8_FailedTierFallsThrough ==
    Verified /\ tierRun.tier = "DeepFace" /\ tierRun.failed
    => /\ Invoked("compare_faces_simple")
       /\ verdict.message.method = "SimpleMatch"

\* C9: when the comparison fails internally the outcome is one the caller
\* can tell from every outcome of a comparison that ran (an input error,
\* not a rejection).
ComparedVerdicts ==
    {DeepFaceVerdict(compare_faces_deepface(TRUE, df)[1],
                     compare_faces_deepface(TRUE, df)[2]) :
        df \in {r \in DeepFaceRuns("valid") : ~DeepFaceFailed(r)}}
    \cup
    {SimpleVerdict(compare_faces_simple(sm)[1], compare_faces_simple(sm)[2]) :
        sm \in {r \in SimpleRuns("valid") : ~SimpleFailed(r)}}

C9_FailureDistinctFromMismatch ==
    Verified /\ tierRun.failed
    => verdict \notin ComparedVerdicts

\* C10: after a borderline verdict, an operator who leaves the checkbox
\* unticked or presses cancel gets a failure and the store is unchanged.
C10_DeclinedOverrideRejects ==
    Saved /\ Borderline /\ (~ui.override \/ ui.cancel)
    => /\ ui.offered
       /\ ~result.success
       /\ result.message \in {"cancelled", "verify_failed"}
       /\ attendance = attendance0
       /\ ~Invoked("save_attendance")

C10_Witness ==
    /\ Saved /\ Borderline /\ ui.override /\ ui.cancel
    /\ result.message = "cancelled" /\ attendance = attendance0

\* C11: every confidence a tier returns, and the one verify_face_attendance
\* returns, lies in [0, 100].
C11_ConfidenceInRange ==
    /\ tierRun.confidence >= 0 /\ tierRun.confidence <= 100
    /\ verdict.confidence >= 0 /\ verdict.confidence <= 100

\* C12 (as stated): every verdict of verify_face_attendance carries a
\* rationale that names the tier used and the numeric confidence.
C12_RationaleAlwaysNamesTier ==
    Verified
    => /\ verdict.message.kind # "-"
       /\ verdict.message.method \in {"DeepFace", "SimpleMatch"}
       /\ verdict.message.conf = verdict.confidence

\* C12 (amended): every verdict carries a rationale; the one that follows a
\* comparison names the tier that ran and its confidence, the others (no
\* photo, no reference, processing failure, quality rejection, error) carry
\* the reason alone, with confidence 0.
TierRationales == {"match", "low", "no_match"}
PlainRationales == {"no_photo", "no_reference", "process_failed", "bad_quality", "error"}

C12_RationaleNamesTierThatRan ==
    Verified
    => /\ verdict.message.kind \in TierRationales \cup PlainRationales
       /\ tierRun.tier # "-"
            => /\ verdict.message.kind \in TierRationales
               /\ verdict.message.method = tierRun.tier
               /\ verdict.message.conf = tierRun.confidence
               /\ verdict.confidence = tierRun.confidence
       /\ tierRun.tier = "-"
            => /\ verdict.message.kind \in PlainRationales
               /\ verdict.message.method = "-"
               /\ verdict.confidence = 0
               /\ ~verdict.matched

C12_Witness ==
    /\ Verified /\ tierRun.tier = "SimpleMatch" /\ tierRun.confidence = 30
    /\ verdict.message = Msg("no_match", "SimpleMatch", "-", 30)

\* C13: neither function raises: every call ends in a returned value, an
\* internal failure included, and a pair that does not match is reported
\* as a returned verdict with matched = False.
C13_NeverRaises ==
    /\ pc # "raised"
    /\ Verified => verdict.message.kind # "-"
    /\ Saved => result.message # "-"
    /\ Verified /\ tierRun.tier # "-" /\ ~tierRun.match => ~verdict.matched

C13_Witness ==
    /\ Saved /\ args.ref = "none" /\ args.photo = "undecodable"
    /\ result = [success |-> FALSE, message |-> "error"]

\* C14: when compare_faces_deepface has returned, on whichever path, every
\* temporary file it created in that call has been deleted.
C14_TempFilesDeleted ==
    Invoked("compare_faces_deepface") => tmpfiles = {}

\* C15: where the detector reports its detections, check_face_quality
\* passes only on exactly one face; none and several are both rejected, and
\* with several no face goes on to the size check or to a comparison.
C15_ExactlyOneFace ==
    OPENCV_AVAILABLE /\ gate.ran /\ gate.detected
    => /\ gate.ok => gate.nfaces = 1
       /\ gate.nfaces = 0 => ~gate.ok /\ gate.reason = "no_face"
       /\ gate.nfaces > 1
            => /\ ~gate.ok
               /\ gate.reason = "multiple_faces"
               /\ TiersCalled(calls) = <<>>
               /\ verdict.message = Msg("bad_quality", "-", "multiple_faces", 0)

C15_Witness ==
    /\ Saved /\ OPENCV_AVAILABLE /\ gate.detected /\ gate.nfaces = 2
    /\ ~gate.ok /\ result.message = "mismatch"

\* C16: without a face detector (OpenCV missing, or the cascade not loaded)
\* check_face_quality passes and the first available tier goes on to give
\* the verdict.
C16_DetectorFreeMode ==
    gate.ran /\ (~OPENCV_AVAILABLE \/ gate.reason = "detector_unavailable")
    => /\ gate.ok
       /\ pc # "tiers"
            => /\ Verified
               /\ Len(TiersCalled(calls)) = 1
               /\ tierRun.tier = tier_order(DEEPFACE_AVAILABLE)[1]
               /\ verdict.message.method = tierRun.tier
               /\ verdict.message.kind \in TierRationales

C16_Witness ==
    /\ ~OPENCV_AVAILABLE /\ gate.ran /\ Verified
    /\ tierRun.tier = "SimpleMatch" /\ verdict.matched

Prefix(a, b) == Len(a) <= Len(b) /\ SubSeq(b, 1, Len(a)) = a
AppendedOne == Len(attendance) = Len(attendance0) + 1 /\ Prefix(attendance0, attendance)

\* C17 (as stated): a call of save_attendance_with_verification that
\* reports success has appended exactly one record, one that reports
\* failure none, and no existing record is changed or removed.
C17_SuccessIsOneRecord ==
    /\ Prefix(attendance0, attendance)
    /\ Saved /\ result.success => AppendedOne
    /\ Saved /\ ~result.success => attendance = attendance0

\* C17 (amended): the same with a store client; without one (supabase is
\* None) the call reports success and appends nothing.
C17_SuccessIsOneRecordWithClient ==
    /\ Prefix(attendance0, attendance)
    /\ Saved /\ result.success /\ args.supabase
         => AppendedOne /\ Invoked("save_attendance")
    /\ Saved /\ result.success /\ ~args.supabase
         => attendance = attendance0 /\ ~Invoked("save_attendance")
    /\ Saved /\ ~result.success => attendance = attendance0

C17_Witness ==
    /\ Saved /\ result.success /\ args.supabase
    /\ Len(attendance0) = 1 /\ Len(attendance) = 2
    /\ attendance[1] = attendance0[1]

\* C18: a failing insert does not raise into the verification flow:
\* save_attendance returns False and save_attendance_with_verification
\* returns failure with the storage-failure message, on the verified path
\* and on the no-reference path alike.
InsertFailed == Saved /\ Invoked("save_attendance") /\ attendance = attendance0

C18_StorageFailureReported ==
    InsertFailed
    => /\ pc # "raised"
       /\ ~result.success
       /\ result.message = "db_failed"

\* C19: on the page, once the verdict is borderline and the operator has
\* ticked "Ya, tetap simpan", a record with the borderline confidence is
\* eventually saved through the override.
OverrideTicked == page.ticked
SavedByOverride ==
    /\ ui.override
    /\ pc = "done" /\ result.success
    /\ Len(attendance) = Len(attendance0) + 1
    /\ attendance[Len(attendance)].confidence = verdict.confidence

C19_TickedOverrideEventuallySaves == [](OverrideTicked => <>SavedByOverride)

\* C20: after any sequence of save_student calls, interleaved or not and
\* whatever whitespace surrounds the NIM, the students table holds at most
\* one row per stored NIM, and a call for an already enrolled NIM has
\* updated that row and inserted nothing (unless the client is missing or
\* the existence check itself failed).
OneRowPerNim ==
    \A i, j \in 1..Len(students) : students[i].nim = students[j].nim => i = j

EnrolledCallUpdates ==
    \A s \in Sessions :
        (sess[s].pc = "done" /\ sess[s].enrolled /\ ~sess[s].fault)
            => sess[s].wrote = "update"

C20_OneRowPerNim == OneRowPerNim /\ EnrolledCallUpdates

\* C21: after any sequence of save_attendance_with_verification calls, every
\* stored attendance record has confidence 0 or a confidence strictly above
\* 40, and a record with confidence 0 is written only by a call that found
\* no reference photo.
StoredConfidences == {attendance[i].confidence : i \in 1..Len(attendance)}

C21_StoredConfidenceZeroOrAbove40 ==
    /\ \A c \in StoredConfidences : c = 0 \/ c > 40
    /\ (RecordWritten /\ attendance[Len(attendance)].confidence = 0)
           => args.ref = "none"

\* an unverified record followed by an overridden one just above the floor
C21_Witness ==
    /\ Len(attendance) = 2
    /\ attendance[1].confidence = 0
    /\ attendance[2].confidence = 45
    /\ Saved /\ RecordWritten /\ Borderline /\ ui.override

====
